---- MODULE Spec2Model ----
(***************************************************************************)
(* Realtime GTFS ingestion and trajectory building.                        *)
(*                                                                         *)
(*   realtime_analysis/utility/utils.py        identity, route filter      *)
(*   realtime_analysis/ingest_realtime.py      feed poller, sample store   *)
(*   realtime_analysis/data/build_realtime_trajectories.py                 *)
(*                                             map-match client, builder   *)
(*                                                                         *)
(* Python strings are sequences of one-character strings; None and the     *)
(* empty string, which the code never tells apart (`x or None`, `if x:`),  *)
(* are both the empty sequence.  A datetime is a number of ticks after     *)
(* 2024-01-01T08:00:00Z, TicksPerSec ticks to the second.                  *)
(***************************************************************************)
EXTENDS Integers, Sequences, FiniteSets, TLC

VARIABLES
    entA, entB,         \* SpecId: the two feed entities being resolved
    idA, idB,           \* SpecId: their trip_instance_id (<<>> before the call)
    parse,              \* SpecParse: an ingestor's route filter, an entity, its rows
    args,               \* SpecIngest: the command line of main()
    timing,             \* SpecIngest: per finished poll, time spent and time slept
    pc,                 \* SpecIngest: position of main() / poll_once()
    idx,                \* SpecIngest: loop variable of main()
    max_polls,          \* SpecIngest: number of polls main() was configured for
    connOpen,           \* SpecIngest: ingestor.conn is open
    sessionOpen,        \* SpecIngest: ingestor.session is open
    stored,             \* SpecIngest: committed batches, <<poll, table>> in commit order
    started,            \* SpecIngest: set of polls whose poll_once() was entered
    completed,          \* SpecIngest: set of polls whose poll_once() returned
    failure,            \* SpecIngest: the exception a poll raised (poll 0: none)
    interruptedAt,      \* SpecIngest: where KeyboardInterrupt was raised ("": never)
    samples,            \* SpecBuild: rt_vehicle_positions
    trips_mdb,          \* SpecBuild: realtime_trips_mdb
    now,                \* SpecBuild: database clock (now())
    last,               \* SpecBuild: inputs and outcome of the last build_trajs call
    mm                  \* SpecMatch: a valhalla_map_match call: points, HTTP outcome, result

idVars     == <<entA, entB, idA, idB, parse>>
ingestVars == <<args, timing, pc, idx, max_polls, connOpen, sessionOpen, stored, started,
                completed, failure, interruptedAt>>
buildVars  == <<samples, trips_mdb, now, last>>
vars       == <<idVars, ingestVars, buildVars, mm>>

(***************************************************************************)
(* Bounds                                                                  *)
(***************************************************************************)
MaxSec      == 1    \* feed timestamps range over 0..MaxSec seconds (0: field absent)
MaxPolls    == 3    \* largest max_polls main() is run with
MaxSamples  == 3    \* largest number of rows of rt_vehicle_positions
MaxBuilds   == 2    \* largest number of build_trajs calls
MaxPoints   == 3    \* longest point list valhalla_map_match is called with
TicksPerSec == 2    \* sub-second resolution of datetime.now()
MaxLine     == 2    \* longest coordinate list that is encoded as a polyline

(***************************************************************************)
(* Strings                                                                 *)
(***************************************************************************)
None == <<>>

\* The characters the model uses, in code-point order.
Alphabet ==
    <<"0", "1", "2", "3", "4", "5", "6", "7", "8", "9", ":",
      "R", "T", "V", "_", "i", "p", "r", "t">>

Ord(c) == CHOOSE i \in 1..Len(Alphabet) : Alphabet[i] = c

Digits == <<"0", "1", "2", "3", "4", "5", "6", "7", "8", "9">>

IsDigit(c) == \E i \in 1..10 : Digits[i] = c

DigitVal(c) == (CHOOSE i \in 1..10 : Digits[i] = c) - 1

\* str < str, as Python and PostgreSQL (C collation) compare them.
RECURSIVE StrLess(_, _)
StrLess(a, b) ==
    IF b = <<>> THEN FALSE
    ELSE IF a = <<>> THEN TRUE
    ELSE IF Head(a) = Head(b) THEN StrLess(Tail(a), Tail(b))
    ELSE Ord(Head(a)) < Ord(Head(b))

\* str.replace(old, "") for a one-character old.
RECURSIVE Remove(_, _)
Remove(s, c) ==
    IF s = <<>> THEN <<>>
    ELSE IF Head(s) = c THEN Remove(Tail(s), c)
    ELSE <<Head(s)>> \o Remove(Tail(s), c)

\* sep.join(parts)
RECURSIVE Join(_, _)
Join(parts, sep) ==
    IF parts = <<>> THEN <<>>
    ELSE IF Len(parts) = 1 THEN parts[1]
    ELSE parts[1] \o sep \o Join(Tail(parts), sep)

\* Decimal digits of n, at least `width` of them (zero padded).
RECURSIVE Dec(_, _)
Dec(n, width) ==
    IF n < 10 /\ width <= 1 THEN <<Digits[n + 1]>>
    ELSE Dec(n \div 10, width - 1) \o <<Digits[(n % 10) + 1]>>

\* int() of a string of digits.
RECURSIVE Num(_)
Num(s) == IF s = <<>> THEN 0 ELSE 10 * Num(SubSeq(s, 1, Len(s) - 1)) + DigitVal(s[Len(s)])

(***************************************************************************)
(* Dates: datetime.date is <<year, month, day>>, None is <<>>.             *)
(***************************************************************************)
IsLeap(y) == (y % 4 = 0 /\ y % 100 # 0) \/ y % 400 = 0

DaysIn(y, m) ==
    IF m = 2 THEN (IF IsLeap(y) THEN 29 ELSE 28)
    ELSE IF m \in {4, 6, 9, 11} THEN 30 ELSE 31

\* The lengths the %m directive of strptime can take at position i of s, in the
\* order its regular expression 1[0-2]|0[1-9]|[1-9] tries them.
MonthAlts(s, i) ==
    LET two == i + 1 <= Len(s) /\ IsDigit(s[i]) /\ IsDigit(s[i + 1])
        a1  == two /\ s[i] = "1" /\ DigitVal(s[i + 1]) <= 2
        a2  == two /\ s[i] = "0" /\ DigitVal(s[i + 1]) >= 1
        a3  == i <= Len(s) /\ IsDigit(s[i]) /\ DigitVal(s[i]) >= 1
    IN  (IF a1 \/ a2 THEN <<2>> ELSE <<>>) \o (IF a3 THEN <<1>> ELSE <<>>)

\* The length the %d directive takes at position i: 3[0-1]|[1-2]\d|0[1-9]|[1-9]
\* (0: no match).
DayLen(s, i) ==
    LET two == i + 1 <= Len(s) /\ IsDigit(s[i]) /\ IsDigit(s[i + 1])
    IN  IF two /\ s[i] = "3" /\ DigitVal(s[i + 1]) <= 1 THEN 2
        ELSE IF two /\ s[i] \in {"1", "2"} THEN 2
        ELSE IF two /\ s[i] = "0" /\ DigitVal(s[i + 1]) >= 1 THEN 2
        ELSE IF i <= Len(s) /\ IsDigit(s[i]) /\ DigitVal(s[i]) >= 1 THEN 1
        ELSE 0

\* parse_service_date: datetime.strptime(raw, "%Y%m%d").date(), None when raw is
\* empty or strptime raises ValueError (no match, unconverted data, or a day the
\* month does not have).
parse_service_date(raw) ==
    IF raw = <<>> THEN None
    ELSE IF Len(raw) < 4 \/ \E i \in 1..4 : ~IsDigit(raw[i]) THEN None
    ELSE
        LET alts == MonthAlts(raw, 5)
            ok(k) == k <= Len(alts) /\ DayLen(raw, 5 + alts[k]) > 0
            k    == IF ok(1) THEN 1 ELSE IF ok(2) THEN 2 ELSE 0
        IN  IF k = 0 THEN None
            ELSE
                LET ml == alts[k]
                    dl == DayLen(raw, 5 + ml)
                    y  == Num(SubSeq(raw, 1, 4))
                    m  == Num(SubSeq(raw, 5, 4 + ml))
                    d  == Num(SubSeq(raw, 5 + ml, 4 + ml + dl))
                IN  IF 4 + ml + dl # Len(raw) THEN None
                    ELSE IF y < 1 \/ d > DaysIn(y, m) THEN None
                    ELSE <<y, m, d>>

\* date.strftime("%Y%m%d") (glibc: the year is not padded).
DateStr(d) == Dec(d[1], 1) \o Dec(d[2], 2) \o Dec(d[3], 2)

\* datetime.strftime('%Y%m%dT%H%M%S') of the datetime t ticks after
\* 2024-01-01T08:00:00Z: the sub-second part is cut off.
TsStr(t) ==
    LET s == t \div TicksPerSec
    IN  <<"2", "0", "2", "4", "0", "1", "0", "1", "T">>
        \o Dec(8 + s \div 3600, 2) \o Dec((s \div 60) % 60, 2) \o Dec(s % 60, 2)

\* datetime.fromtimestamp(value, tz=utc) of a feed timestamp (whole seconds).
FromTimestamp(sec) == sec * TicksPerSec

(***************************************************************************)
(* Trip instance identity                                                  *)
(***************************************************************************)
\* The last two returns of build_trip_instance_id, reached when parts is empty.
build_trip_instance_id_no_trip(trip_id, start_date, start_time, vehicle_id, fallback_timestamp) ==
    IF vehicle_id # <<>>
    THEN vehicle_id \o <<"_">> \o TsStr(fallback_timestamp)
    ELSE <<"t", "r", "i", "p", "_">> \o TsStr(fallback_timestamp)

\* A mutant: vehicle_id is one of the parts.
build_trip_instance_id_vehicle(trip_id, start_date, start_time, vehicle_id, fallback_timestamp) ==
    LET parts == (IF trip_id # <<>> THEN <<trip_id>> ELSE <<>>)
                 \o (IF vehicle_id # <<>> THEN <<vehicle_id>> ELSE <<>>)
                 \o (IF start_date # None THEN <<DateStr(start_date)>> ELSE <<>>)
                 \o (IF start_time # <<>> THEN <<Remove(start_time, ":")>> ELSE <<>>)
    IN  IF parts # <<>> THEN Join(parts, <<"_">>)
        ELSE <<"t", "r", "i", "p", "_">> \o TsStr(fallback_timestamp)

\* A mutant: the start time is cut to HHMM.
build_trip_instance_id_hhmm(trip_id, start_date, start_time, vehicle_id, fallback_timestamp) ==
    LET hhmm  == SubSeq(Remove(start_time, ":"), 1, 4)
        parts == (IF trip_id # <<>> THEN <<trip_id>> ELSE <<>>)
                 \o (IF start_date # None THEN <<DateStr(start_date)>> ELSE <<>>)
                 \o (IF start_time # <<>> THEN <<hhmm>> ELSE <<>>)
    IN  IF parts # <<>> THEN Join(parts, <<"_">>)
        ELSE build_trip_instance_id_no_trip(trip_id, start_date, start_time,
                                            vehicle_id, fallback_timestamp)

build_trip_instance_id(trip_id, start_date, start_time, vehicle_id, fallback_timestamp) ==
    LET parts == (IF trip_id # <<>> THEN <<trip_id>> ELSE <<>>)
                 \o (IF start_date # None THEN <<DateStr(start_date)>> ELSE <<>>)
                 \o (IF start_time # <<>> THEN <<Remove(start_time, ":")>> ELSE <<>>)
    IN  IF parts # <<>> THEN Join(parts, <<"_">>)
        ELSE build_trip_instance_id_no_trip(trip_id, start_date, start_time,
                                            vehicle_id, fallback_timestamp)

\* _to_timestamp(value, fallback): value is in seconds, 0 when the field is unset.
to_timestamp(value, fallback) ==
    IF value # 0 THEN FromTimestamp(value) ELSE fallback

\* entity_ts of _parse_vehicle_positions / _parse_trip_updates:
\* _to_timestamp(x.timestamp or feed.header.timestamp, fetch_ts).
EntityTs(e) ==
    to_timestamp(IF e.timestamp # 0 THEN e.timestamp ELSE e.header_timestamp, e.fetch_ts)

\* The trip_instance_id _parse_vehicle_positions gives a vehicle-position entity.
VehicleInstanceId(e) ==
    build_trip_instance_id(e.trip_id, parse_service_date(e.start_date), e.start_time,
                           e.vehicle_id, EntityTs(e))

\* The trip_instance_id _parse_trip_updates gives a trip-update entity.
TripUpdateInstanceId(e) ==
    build_trip_instance_id(e.trip_id, parse_service_date(e.start_date), e.start_time,
                           e.vehicle_id, EntityTs(e))

InstanceId(e) ==
    IF e.kind = "vehicle" THEN VehicleInstanceId(e) ELSE TripUpdateInstanceId(e)

(***************************************************************************)
(* SpecId: two entities, taken from any feed and any poll, are resolved.   *)
(***************************************************************************)
T1 == <<"T", "1">>
T2 == <<"T", "2">>
V1 == <<"V", "1">>
V2 == <<"V", "2">>
R1 == <<"R", "1">>
R2 == <<"R", "2">>
Date0101 == <<"2", "0", "2", "4", "0", "1", "0", "1">>
DateBad  == <<"2", "0", "2", "4", "1", "3", "0", "1">>
Time0800 == <<"0", "8", ":", "0", "0", ":", "0", "0">>
\* A trip_id that ends in an underscore and eight digits.
T1_20240101 == T1 \o <<"_">> \o Date0101

\* The polls an entity can come from: the feed header's timestamp (seconds, 0 when
\* unset) and the poll's fetch_ts (ticks).
Polls ==
    { [header_timestamp |-> 0, fetch_ts |-> 1],
      [header_timestamp |-> MaxSec + 1, fetch_ts |-> 2 * TicksPerSec + 1] }

Entities ==
    { [kind |-> k, trip_id |-> t, start_date |-> d, start_time |-> s, vehicle_id |-> v,
       timestamp |-> ts, header_timestamp |-> p.header_timestamp, fetch_ts |-> p.fetch_ts] :
        k \in {"vehicle", "trip_update"}, t \in {None, T1, T2, T1_20240101},
        d \in {None, Date0101, DateBad}, s \in {None, Time0800},
        v \in {None, V1, V2}, ts \in 0..MaxSec, p \in Polls }

NoFailure == [poll |-> 0, feed |-> "", kind |-> ""]

InitIngestIdle ==
    /\ args = [once |-> FALSE] /\ timing = <<>>
    /\ pc = "idle" /\ idx = 0 /\ max_polls = 0
    /\ connOpen = FALSE /\ sessionOpen = FALSE
    /\ stored = <<>> /\ started = {} /\ completed = {}
    /\ failure = NoFailure /\ interruptedAt = ""

InitBuildIdle ==
    /\ samples = {} /\ trips_mdb = {} /\ now = 0 /\ last = [mode |-> "none"]

InitMatchIdle == mm = [phase |-> "idle"]

InitIdIdle ==
    /\ entA = [kind |-> "none"] /\ entB = [kind |-> "none"] /\ idA = <<>> /\ idB = <<>>
    /\ parse = [phase |-> "idle"]

InitId ==
    /\ entA \in Entities
    /\ entB = [kind |-> "none"]
    /\ idA = <<>> /\ idB = <<>>
    /\ parse = [phase |-> "idle"]
    /\ InitIngestIdle /\ InitBuildIdle /\ InitMatchIdle

\* The parsers resolve entity A and another entity B.
ResolvePair ==
    /\ idA = <<>>
    /\ \E e \in Entities :
        /\ entB' = e
        /\ idA' = InstanceId(entA)
        /\ idB' = InstanceId(e)
    /\ UNCHANGED <<entA, parse, ingestVars, buildVars, mm>>

NextId == ResolvePair

SpecId == InitId /\ [][NextId]_vars

Resolved == idA # <<>>

\* C1: two entities (of either kind, from any polls) that share a present trip_id,
\* start_date and start_time get the same trip_instance_id, whatever their
\* vehicle_id and observed timestamp.
C1_SameTripSameId ==
    ( /\ Resolved
      /\ entA.trip_id # None
      /\ entA.trip_id = entB.trip_id
      /\ entA.start_date = entB.start_date
      /\ entA.start_time = entB.start_time )
    => idA = idB

\* A trip-update without vehicle and a vehicle-position with vehicle V1, observed at
\* different times in different polls, resolved to the same id.
C1_Witness ==
    /\ Resolved
    /\ entA.trip_id = T1 /\ entB.trip_id = T1
    /\ entA.start_date = entB.start_date /\ entA.start_time = entB.start_time
    /\ entA.kind = "vehicle" /\ entB.kind = "trip_update"
    /\ entA.vehicle_id = V1 /\ entB.vehicle_id = None
    /\ EntityTs(entA) # EntityTs(entB)
    /\ entA.fetch_ts # entB.fetch_ts
    /\ idA = idB

\* C14: an entity without trip_id and with vehicle_id gets vehicle_id joined with
\* its observed timestamp at whole-second resolution, whatever its start_date and
\* start_time.
C14_VehicleFallback ==
    (Resolved /\ entA.trip_id = None /\ entA.vehicle_id # None) =>
        idA = entA.vehicle_id \o <<"_">> \o TsStr(EntityTs(entA))

\* An entity carries none of trip_id, service date, start time and vehicle_id.
Unidentifiable(e) ==
    /\ e.trip_id = None /\ e.vehicle_id = None
    /\ parse_service_date(e.start_date) = None /\ e.start_time = None

\* C15: an unidentifiable entity seen in two polls with different fetch times
\* gets two different, non-empty trip_instance_ids.
C15_PollsDoNotCollapse ==
    ( /\ Resolved
      /\ Unidentifiable(entA) /\ Unidentifiable(entB)
      /\ entA.kind = entB.kind /\ entA.timestamp = entB.timestamp
      /\ entA.fetch_ts # entB.fetch_ts )
    => (idA # idB /\ idA # <<>> /\ idB # <<>>)

\* The trip fields of an entity as build_trip_instance_id receives them.
TripFields(e) == <<e.trip_id, parse_service_date(e.start_date), e.start_time>>

\* C29: two entities whose (trip_id, service_date, start_time) triples differ
\* never get the same trip_instance_id.
C29_InjectiveOnTripFields ==
    (Resolved /\ TripFields(entA) # TripFields(entB)) => idA # idB

(***************************************************************************)
(* SpecIngest: main() of ingest_realtime.py, one step per blocking call.   *)
(*                                                                         *)
(*   pc = "loop"        at `for idx in range(max_polls)`                   *)
(*   pc = "fetch_vp"    in _request_feed(vehicle_positions_url)            *)
(*   pc = "persist_vp"  in _parse_/_persist_vehicle_positions              *)
(*   pc = "fetch_tu"    in _request_feed(trip_updates_url)                 *)
(*   pc = "persist_tu"  in _parse_/_persist_trip_updates                   *)
(*   pc = "sleep"       in time.sleep(remaining)                           *)
(*   pc = "finally"     at `finally: ingestor.close()`                     *)
(*   pc = "returned"    main() returned 0                                  *)
(*   pc = "raised"      main() was left by an exception                    *)
(***************************************************************************)
InTry == {"loop", "fetch_vp", "persist_vp", "fetch_tu", "persist_tu", "sleep"}

InPoll == {"fetch_vp", "persist_vp", "fetch_tu", "persist_tu"}

\* What makes _request_feed raise: session.get (timeout, connection error),
\* raise_for_status (non-success status), ParseFromString (DecodeError).
FetchFailures == {"timeout", "connection", "status", "decode"}

\* A mutant: the duration is converted with floor.
ConfiguredPolls_floor(a) ==
    IF a.once THEN 1
    ELSE IF a.max_polls # 0 THEN a.max_polls
    ELSE IF (a.duration_minutes * 60) \div a.poll_interval > 1
         THEN (a.duration_minutes * 60) \div a.poll_interval ELSE 1

\* max_polls of main(): 1 with --once, else --max-polls when given (0: not
\* given), else max(1, math.ceil(duration_minutes * 60 / poll_interval)).
ConfiguredPolls(a) ==
    IF a.once THEN 1
    ELSE IF a.max_polls # 0 THEN a.max_polls
    ELSE LET n == (a.duration_minutes * 60 + a.poll_interval - 1) \div a.poll_interval
         IN  IF n > 1 THEN n ELSE 1

\* Command lines: --once (which overrides the rest), --max-polls n, and durations
\* in minutes with poll intervals in seconds; those that ask for at most MaxPolls
\* polls.
ArgSets ==
    { a \in
        { [once |-> TRUE, max_polls |-> MaxPolls, duration_minutes |-> 2,
           poll_interval |-> 30] }
        \cup { [once |-> FALSE, max_polls |-> n, duration_minutes |-> 0,
                poll_interval |-> 30] : n \in 1..MaxPolls }
        \cup { [once |-> FALSE, max_polls |-> 0, duration_minutes |-> d,
                poll_interval |-> i] : d \in 0..2, i \in {30, 45, 60} } :
        ConfiguredPolls(a) <= MaxPolls }

\* What time.monotonic() - start can be after a poll, in seconds: nothing, the
\* whole interval, more than the interval.
Elapsed(a) == {0, a.poll_interval, a.poll_interval + 1}

InitIngest ==
    /\ args \in ArgSets
    /\ timing = <<>>
    /\ max_polls = ConfiguredPolls(args)
    /\ idx = 0
    /\ pc = "loop"
    /\ connOpen = TRUE /\ sessionOpen = TRUE
    /\ stored = <<>> /\ started = {} /\ completed = {}
    /\ failure = NoFailure /\ interruptedAt = ""
    /\ InitIdIdle /\ InitBuildIdle /\ InitMatchIdle

\* A mutant: the session is left open.
IngestorClose_leak ==
    /\ connOpen' = FALSE
    /\ UNCHANGED sessionOpen

\* GTFSRealtimeIngestor.close
IngestorClose ==
    /\ connOpen' = FALSE
    /\ sessionOpen' = FALSE

\* An exception other than KeyboardInterrupt leaves poll_once and the for loop:
\* main has no handler for it, only the finally clause.
Propagate(feed, kind) ==
    /\ failure' = [poll |-> idx + 1, feed |-> feed, kind |-> kind]
    /\ pc' = "finally"

\* for idx in range(max_polls): start = time.monotonic(); ingestor.poll_once()
LoopHead ==
    /\ pc = "loop"
    /\ IF idx < max_polls
       THEN /\ pc' = "fetch_vp"
            /\ started' = started \cup {idx + 1}
       ELSE /\ pc' = "finally"
            /\ UNCHANGED started
    /\ UNCHANGED <<args, timing, idx, max_polls, connOpen, sessionOpen, stored, completed,
                   failure, interruptedAt>>
    /\ UNCHANGED <<idVars, buildVars, mm>>

\* _request_feed returns a decoded feed.
FetchOk ==
    /\ pc \in {"fetch_vp", "fetch_tu"}
    /\ pc' = IF pc = "fetch_vp" THEN "persist_vp" ELSE "persist_tu"
    /\ UNCHANGED <<args, timing, idx, max_polls, connOpen, sessionOpen, stored, started, completed,
                   failure, interruptedAt>>
    /\ UNCHANGED <<idVars, buildVars, mm>>

\* _request_feed raises.
FetchFails ==
    /\ pc \in {"fetch_vp", "fetch_tu"}
    /\ \E kind \in FetchFailures :
        Propagate(IF pc = "fetch_vp" THEN "vp" ELSE "tu", kind)
    /\ UNCHANGED <<args, timing, idx, max_polls, connOpen, sessionOpen, stored, started, completed,
                   interruptedAt>>
    /\ UNCHANGED <<idVars, buildVars, mm>>

\* After poll_once returned: elapsed, remaining, and the sleep when it is due.
AfterPoll(elapsed) ==
    LET remaining == args.poll_interval - elapsed
    IN  IF idx < max_polls - 1 /\ ~args.once /\ remaining > 0
        THEN /\ pc' = "sleep" /\ UNCHANGED idx
             /\ timing' = Append(timing, [poll |-> idx + 1, elapsed |-> elapsed,
                                          slept |-> remaining])
        ELSE /\ pc' = "loop" /\ idx' = idx + 1
             /\ timing' = Append(timing, [poll |-> idx + 1, elapsed |-> elapsed,
                                          slept |-> 0])

\* _parse_* and _persist_* of one feed: n rows, committed in one transaction
\* (`with self.conn`) when n > 0, nothing executed when n = 0.
Persist ==
    /\ pc \in {"persist_vp", "persist_tu"}
    /\ \E n \in 0..1 :
        stored' = IF n = 0 THEN stored
                  ELSE Append(stored, <<idx + 1, IF pc = "persist_vp" THEN "vp" ELSE "tu">>)
    /\ IF pc = "persist_vp"
       THEN /\ pc' = "fetch_tu"
            /\ UNCHANGED <<idx, completed, timing>>
       ELSE /\ completed' = completed \cup {idx + 1}
            /\ \E elapsed \in Elapsed(args) : AfterPoll(elapsed)
    /\ UNCHANGED <<args, max_polls, connOpen, sessionOpen, started, failure, interruptedAt>>
    /\ UNCHANGED <<idVars, buildVars, mm>>

\* A mutant: a failing batch takes the poll's committed batches with it.
PersistFails_poll ==
    /\ pc \in {"persist_vp", "persist_tu"}
    /\ Propagate(IF pc = "persist_vp" THEN "vp" ELSE "tu", "persistence")
    /\ stored' = SelectSeq(stored, LAMBDA b : b[1] # idx + 1)
    /\ UNCHANGED <<args, timing, idx, max_polls, connOpen, sessionOpen, started,
                   completed, interruptedAt>>
    /\ UNCHANGED <<idVars, buildVars, mm>>

\* execute_values raises: the transaction is rolled back and the error propagates.
PersistFails ==
    /\ pc \in {"persist_vp", "persist_tu"}
    /\ Propagate(IF pc = "persist_vp" THEN "vp" ELSE "tu", "persistence")
    /\ UNCHANGED <<args, timing, idx, max_polls, connOpen, sessionOpen, stored, started, completed,
                   interruptedAt>>
    /\ UNCHANGED <<idVars, buildVars, mm>>

\* time.sleep(remaining) returns.
SleepDone ==
    /\ pc = "sleep"
    /\ pc' = "loop"
    /\ idx' = idx + 1
    /\ UNCHANGED <<args, timing, max_polls, connOpen, sessionOpen, stored, started,
                   completed, failure, interruptedAt>>
    /\ UNCHANGED <<idVars, buildVars, mm>>

\* SIGINT: Python raises KeyboardInterrupt at the statement being executed inside
\* the try block; `except KeyboardInterrupt` logs and falls into finally.
Interrupt ==
    /\ pc \in InTry
    /\ interruptedAt' = pc
    /\ pc' = "finally"
    /\ UNCHANGED <<args, timing, idx, max_polls, connOpen, sessionOpen, stored, started, completed,
                   failure>>
    /\ UNCHANGED <<idVars, buildVars, mm>>

\* finally: ingestor.close(); then return 0, or the pending exception goes on.
Finally ==
    /\ pc = "finally"
    /\ IngestorClose
    /\ pc' = IF failure.poll # 0 THEN "raised" ELSE "returned"
    /\ UNCHANGED <<args, timing, idx, max_polls, stored, started, completed, failure, interruptedAt>>
    /\ UNCHANGED <<idVars, buildVars, mm>>

NextIngest ==
    \/ LoopHead
    \/ FetchOk
    \/ FetchFails
    \/ Persist
    \/ PersistFails
    \/ SleepDone
    \/ Interrupt
    \/ Finally

SpecIngest == InitIngest /\ [][NextIngest]_vars

LoopEnded == pc \in {"returned", "raised"}

\* C7: a feed fetch that fails in poll k aborts only poll k; the polls k+1 ..
\* max_polls are still executed.
C7_LaterPollsRun ==
    ( /\ LoopEnded
      /\ failure.kind \in FetchFailures
      /\ interruptedAt = "" )
    => started = 1..max_polls

C9_InFlightPollCompletes ==
    (LoopEnded /\ interruptedAt \in InPoll) => (idx + 1) \in completed

\* C17: when the positions feed of a poll fails to be fetched or decoded, the
\* schedule-update feed of that poll is still fetched and persisted and poll_once
\* returns its per-feed counts.
C17_OtherFeedStillRuns ==
    ( /\ LoopEnded
      /\ failure.feed = "vp" /\ failure.kind \in FetchFailures
      /\ interruptedAt = "" )
    => failure.poll \in completed

\* C25: a committed batch is never changed or undone by a later step, each batch
\* is one commit, the schedule-update feed of a poll is fetched only after the
\* poll's position batch was persisted, and a failure of the schedule-update half
\* leaves the stored batches, the poll's positions included, as they were.
C25_PositionsCommittedFirst ==
    [][ /\ Len(stored') \in {Len(stored), Len(stored) + 1}
        /\ SubSeq(stored', 1, Len(stored)) = stored
        /\ (pc' = "fetch_tu" /\ pc # "fetch_tu") => pc = "persist_vp"
        /\ (pc = "persist_vp" /\ Len(stored') > Len(stored)) =>
             stored'[Len(stored')] = <<idx + 1, "vp">>
        /\ (failure'.feed = "tu" /\ failure.feed # "tu") => stored' = stored ]_vars

\* The schedule-update batch of the second poll failed to be stored; the batches
\* of the first poll and the positions of the second are stored.
C25_Witness ==
    /\ pc = "raised"
    /\ failure = [poll |-> 2, feed |-> "tu", kind |-> "persistence"]
    /\ stored = << <<1, "vp">>, <<1, "tu">>, <<2, "vp">> >>

\* main returned without an exception or an interrupt.
CleanRun == pc = "returned" /\ failure.poll = 0 /\ interruptedAt = ""

\* n is the number of polls the command line asks for.
AsksFor(n) ==
    IF args.once THEN n = 1
    ELSE IF args.max_polls # 0 THEN n = args.max_polls
    ELSE IF args.duration_minutes * 60 <= args.poll_interval THEN n = 1
    ELSE /\ n * args.poll_interval >= args.duration_minutes * 60
         /\ (n - 1) * args.poll_interval < args.duration_minutes * 60

Pt(lat, lon) == [lat |-> lat, lon |-> lon]

RECURSIVE Pow2(_)
Pow2(n) == IF n = 0 THEN 1 ELSE 2 * Pow2(n - 1)

\* A mutant: the low bit is dropped and the sign with it.
RECURSIVE DecodeValue_unsigned(_, _, _, _)
DecodeValue_unsigned(encoded, index, result, shift) ==
    IF index > Len(encoded) THEN <<result \div 2, index>>
    ELSE
        LET b  == encoded[index] - 63
            r  == result + (b % 32) * Pow2(shift)
        IN  IF b < 32 THEN <<r \div 2, index + 1>>
            ELSE DecodeValue_unsigned(encoded, index + 1, r, shift + 5)

\* A mutant: an odd result gives the arithmetic negation of result >> 1.
RECURSIVE DecodeValue_negate(_, _, _, _)
DecodeValue_negate(encoded, index, result, shift) ==
    IF index > Len(encoded)
    THEN <<(IF result % 2 = 1 THEN -(result \div 2) ELSE result \div 2), index>>
    ELSE
        LET b  == encoded[index] - 63
            r  == result + (b % 32) * Pow2(shift)
        IN  IF b < 32
            THEN <<(IF r % 2 = 1 THEN -(r \div 2) ELSE r \div 2), index + 1>>
            ELSE DecodeValue_negate(encoded, index + 1, r, shift + 5)

\* _decode_value: <<delta, next index>> of the value that starts at index.
RECURSIVE DecodeValue(_, _, _, _)
DecodeValue(encoded, index, result, shift) ==
    IF index > Len(encoded)
    THEN <<(IF result % 2 = 1 THEN -(result \div 2) - 1 ELSE result \div 2), index>>
    ELSE
        LET b  == encoded[index] - 63
            r  == result + (b % 32) * Pow2(shift)
        IN  IF b < 32
            THEN <<(IF r % 2 = 1 THEN -(r \div 2) - 1 ELSE r \div 2), index + 1>>
            ELSE DecodeValue(encoded, index + 1, r, shift + 5)

RECURSIVE DecodeFrom(_, _, _, _)
DecodeFrom(encoded, index, lat, lon) ==
    IF index > Len(encoded) THEN <<>>
    ELSE
        LET a == DecodeValue(encoded, index, 0, 0)
            b == DecodeValue(encoded, a[2], 0, 0)
        IN  <<Pt(lat + a[1], lon + b[1])>> \o DecodeFrom(encoded, b[2], lat + a[1], lon + b[1])

decode_polyline6(encoded) == DecodeFrom(encoded, 1, 0, 0)

\* A mutant: a half rounds up.
RoundHalfUp(num, den) == (2 * num + den) \div (2 * den)

\* round() of the fraction num/den >= 0: to the nearest integer, ties to even.
RoundHalfEven(num, den) ==
    LET q == num \div den
        r == num % den
    IN  IF 2 * r < den THEN q
        ELSE IF 2 * r > den THEN q + 1
        ELSE IF q % 2 = 0 THEN q ELSE q + 1

\* A mutant: a target length of 1 gives the last element.
resample_points_last(points, target_len) ==
    IF target_len <= 0 \/ points = <<>> THEN <<>>
    ELSE IF Len(points) = target_len THEN points
    ELSE IF target_len = 1 THEN <<points[Len(points)]>>
    ELSE [i \in 1..target_len |->
            points[RoundHalfEven((i - 1) * (Len(points) - 1), target_len - 1) + 1]]

resample_points(points, target_len) ==
    IF target_len <= 0 \/ points = <<>> THEN <<>>
    ELSE IF Len(points) = target_len THEN points
    ELSE IF target_len = 1 THEN <<points[1]>>
    ELSE [i \in 1..target_len |->
            points[RoundHalfEven((i - 1) * (Len(points) - 1), target_len - 1) + 1]]

LatMax == 90000000
LonMax == 180000000

ValidCoord(pt) ==
    /\ -LonMax <= pt.lon /\ pt.lon <= LonMax
    /\ -LatMax <= pt.lat /\ pt.lat <= LatMax

NoMatch == [tag |-> "none"]
Raised  == [tag |-> "raise"]

\* A tracepoint of the response: null, or {"location": [lon, lat]}.
NullTp == [null |-> TRUE]
Tp(pt) == [null |-> FALSE, lat |-> pt.lat, lon |-> pt.lon]

\* A mutant: whatever points the response gives are returned as the match.
ParseMatch_anylen(points, body) ==
    LET full_shape == IF body.matchings # <<>> /\ body.matchings[1] # <<>>
                      THEN decode_polyline6(body.matchings[1]) ELSE <<>>
        valid      == \A i \in 1..Len(body.tracepoints) : ~body.tracepoints[i].null
        tracepts   == IF valid
                      THEN [i \in 1..Len(body.tracepoints) |->
                              Pt(body.tracepoints[i].lat, body.tracepoints[i].lon)]
                      ELSE <<>>
        matched    == IF tracepts = <<>> /\ full_shape # <<>>
                      THEN resample_points(full_shape, Len(points))
                      ELSE tracepts
    IN  IF matched # <<>>
        THEN [tag |-> "match", points |-> matched,
              shape |-> IF full_shape # <<>> THEN full_shape ELSE matched]
        ELSE NoMatch

\* The part of valhalla_map_match that reads a 200 response whose body is a JSON
\* object: `matchings` is the list of the matchings' geometries (<<>>: key absent
\* or empty list; a geometry <<>>: no geometry), `tracepoints` the list of
\* tracepoints.
ParseMatch(points, body) ==
    LET full_shape == IF body.matchings # <<>> /\ body.matchings[1] # <<>>
                      THEN decode_polyline6(body.matchings[1]) ELSE <<>>
        valid      == \A i \in 1..Len(body.tracepoints) : ~body.tracepoints[i].null
        tracepts   == IF valid
                      THEN [i \in 1..Len(body.tracepoints) |->
                              Pt(body.tracepoints[i].lat, body.tracepoints[i].lon)]
                      ELSE <<>>
        matched    == IF tracepts = <<>> /\ full_shape # <<>>
                      THEN resample_points(full_shape, Len(points))
                      ELSE tracepts
    IN  IF matched # <<>> /\ Len(matched) = Len(points)
        THEN [tag |-> "match", points |-> matched,
              shape |-> IF full_shape # <<>> THEN full_shape ELSE matched]
        ELSE NoMatch

\* A mutant: the coordinates are not looked at.
RequestMade_unchecked(points) == Len(points) >= 2

\* The checks before the request: at least 2 points, every longitude within
\* [-180, 180] and every latitude within [-90, 90].  requests.post is reached
\* only when they pass.
RequestMade(points) ==
    /\ Len(points) >= 2
    /\ \A i \in 1..Len(points) : ValidCoord(points[i])

\* valhalla_map_match(points, ...) when the HTTP call ends as resp:
\*   kind "timeout" / "connection": requests.post raises a RequestException
\*   kind "response": status, and the body: json = "invalid" (not JSON),
\*   "array" (a JSON array) or "object" (a JSON object with matchings, tracepoints).
\* The result is NoMatch (None), a match, or Raised (an exception leaves it).
valhalla_map_match(points, resp) ==
    IF ~RequestMade(points) THEN NoMatch
    ELSE IF resp.kind # "response" THEN NoMatch
    ELSE IF resp.status # 200 THEN NoMatch
    ELSE IF resp.json = "invalid" THEN NoMatch
    ELSE IF resp.json = "array" THEN Raised
    ELSE ParseMatch(points, resp)

(***************************************************************************)
(* Route filter                                                            *)
(***************************************************************************)
RouteFilter(route_ids, route_short_names) ==
    [route_ids |-> route_ids, route_short_names |-> route_short_names]

\* A mutant: the filter applies even when it is empty.
applies_always(rf) == TRUE

applies(rf) == rf.route_ids # {} \/ rf.route_short_names # {}

should_accept_route(rf, route_id) ==
    IF ~applies(rf) THEN TRUE
    ELSE IF route_id = None THEN FALSE
    ELSE route_id \in rf.route_ids

\* A mutant: short names that match no route are dropped from the filter.
resolve_route_filter_known(routes, route_ids, route_short_names) ==
    LET found == {r \in routes : r.route_short_name \in route_short_names}
    IN  RouteFilter({t \in route_ids : t # None} \cup {r.route_id : r \in found},
                    {r.route_short_name : r \in found})

\* resolve_route_filter over the catalog table `routes`: the given ids and short
\* names without the empty ones, plus the route_id of every route whose
\* route_short_name is one of the short names.
resolve_route_filter(routes, route_ids, route_short_names) ==
    LET short_names == {t \in route_short_names : t # None}
        found       == {r \in routes : r.route_short_name \in short_names}
    IN  RouteFilter({t \in route_ids : t # None} \cup {r.route_id : r \in found},
                    short_names \cup {r.route_short_name : r \in found})

(***************************************************************************)
(* Sample store: the row _parse_vehicle_positions builds for an entity.    *)
(***************************************************************************)
VehicleRow(e) ==
    [ fetch_timestamp  |-> e.fetch_ts,
      entity_timestamp |-> EntityTs(e),
      trip_instance_id |-> VehicleInstanceId(e),
      trip_id          |-> e.trip_id,
      route_id         |-> e.route_id,
      start_time       |-> e.start_time,
      start_date       |-> parse_service_date(e.start_date),
      vehicle_id       |-> e.vehicle_id,
      latitude         |-> e.latitude,
      longitude        |-> e.longitude ]

\* The rows _parse_vehicle_positions appends for entity e: none when the route is
\* not accepted or when latitude or longitude is falsy (unset or 0).
ParseVehiclePosition(rf, e) ==
    IF ~should_accept_route(rf, e.route_id) THEN {}
    ELSE IF e.latitude = 0 \/ e.longitude = 0 THEN {}
    ELSE {VehicleRow(e)}

(***************************************************************************)
(* Static tables the SQL-only path joins: the published shape of a trip    *)
(* (trips.shape_id -> trajectories.traj) and the scheduled trajectory of a *)
(* trip on a date (scheduled_trips_mdb).  A line is a segment of constant  *)
(* latitude.                                                               *)
(***************************************************************************)
NoLine == [none |-> TRUE]
Line(lat, lon0, lon1) == [none |-> FALSE, lat |-> lat, lon0 |-> lon0, lon1 |-> lon1]

PublishedShape(trip_id) ==
    IF trip_id = T1 THEN Line(2, 1, 2) ELSE NoLine

ScheduledTraj(trip_id, service_date) ==
    IF trip_id = T2 /\ service_date = <<2024, 1, 1>> THEN Line(1, 1, 3) ELSE NoLine

\* ST_LineInterpolatePoint(line, ST_LineLocatePoint(line, geom)): the point of the
\* line closest to geom.
ProjectOnto(line, pt) ==
    Pt(line.lat, IF pt.lon < line.lon0 THEN line.lon0
                 ELSE IF pt.lon > line.lon1 THEN line.lon1 ELSE pt.lon)

\* The CASE of `sequences`: tier T1, else T2, else T3.
TierPoint(trip_id, service_date, pt) ==
    IF ~PublishedShape(trip_id).none THEN ProjectOnto(PublishedShape(trip_id), pt)
    ELSE IF ~ScheduledTraj(trip_id, service_date).none
         THEN ProjectOnto(ScheduledTraj(trip_id, service_date), pt)
    ELSE pt

(***************************************************************************)
(* Trajectory builder                                                      *)
(***************************************************************************)
\* entity_timestamp::date (every datetime of the model lies on 2024-01-01).
DateOf(t) == <<2024, 1, 1>>

\* COALESCE(start_date, entity_timestamp::date) AS service_date
ServiceDate(s) == IF s.start_date # None THEN s.start_date ELSE DateOf(s.entity_timestamp)

\* The WHERE clause of fetch_sql and of `base`.
InWindow(s, start_ts, end_ts, rf) ==
    /\ s.trip_instance_id # None
    /\ start_ts <= s.entity_timestamp /\ s.entity_timestamp <= end_ts
    /\ (~applies(rf) \/ s.route_id \in rf.route_ids)

SameInstant(s, t) ==
    s.trip_instance_id = t.trip_instance_id /\ s.entity_timestamp = t.entity_timestamp

\* A mutant: no row is skipped.
KeptByScan_all(sel) == {sel}

\* The rows of sel one scan can keep in the map-match path: rows arrive ORDER BY
\* trip_instance_id, entity_timestamp and a row whose timestamp is <= the last kept
\* one of its trip is skipped, so of the rows of one instant the one the database
\* returns first stays; which one that is, the query does not say.
KeptByScan(sel) ==
    { P \in SUBSET sel :
        \A s \in sel : Cardinality({t \in P : SameInstant(s, t)}) = 1 }

\* The rows of sel `dedup` can keep in the SQL-only path: rn = 1 of ROW_NUMBER()
\* OVER (PARTITION BY trip_instance_id, entity_timestamp ORDER BY fetch_timestamp);
\* among rows of equal fetch_timestamp the numbering is the database's choice.
KeptByRowNumber(sel) ==
    { P \in KeptByScan(sel) :
        \A p \in P : \A s \in sel :
            SameInstant(s, p) => p.fetch_timestamp <= s.fetch_timestamp }

\* The elements of a set of rows of one trip instance with distinct timestamps,
\* in increasing timestamp order.
RECURSIVE OrderByTime(_)
OrderByTime(rows) ==
    IF rows = {} THEN <<>>
    ELSE LET first == CHOOSE r \in rows :
                        \A o \in rows : r.entity_timestamp <= o.entity_timestamp
         IN  <<first>> \o OrderByTime(rows \ {first})

\* (array_agg(DISTINCT x) FILTER (WHERE x IS NOT NULL))[1]: the least non-null
\* value, NULL when there is none.
FirstDistinct(values) ==
    LET present == values \ {None}
    IN  IF present = {} THEN None
        ELSE CHOOSE v \in present : \A o \in present : v = o \/ StrLess(v, o)

FirstDate(values) ==
    LET present == values \ {None}
    IN  IF present = {} THEN None
        ELSE CHOOSE v \in present :
                \A o \in present :
                    v = o \/ v[1] < o[1] \/ (v[1] = o[1] /\ v[2] < o[2])
                    \/ (v[1] = o[1] /\ v[2] = o[2] /\ v[3] < o[3])

Instant(t, pt) == [t |-> t, lat |-> pt.lat, lon |-> pt.lon]

\* The row `combined`, `trajs` and the final SELECT make of one trip instance:
\* rows are its kept sample rows in time order, pts the point used for each, shape
\* the map-matched shape joined from temp_matched_shapes (<<>>: none).
TrajRow(tid, rows, pts, shape, clock) ==
    [ trip_instance_id |-> tid,
      trip_id      |-> FirstDistinct({rows[i].trip_id : i \in 1..Len(rows)}),
      route_id     |-> FirstDistinct({rows[i].route_id : i \in 1..Len(rows)}),
      service_date |-> FirstDate({ServiceDate(rows[i]) : i \in 1..Len(rows)}),
      vehicle_id   |-> FirstDistinct({rows[i].vehicle_id : i \in 1..Len(rows)}),
      trip         |-> [i \in 1..Len(rows) |-> Instant(rows[i].entity_timestamp, pts[i])],
      traj         |-> IF Len(shape) >= 2 THEN shape ELSE pts,
      starttime    |-> rows[1].entity_timestamp,
      updated_at   |-> clock ]

\* INSERT ... ON CONFLICT (trip_instance_id) DO UPDATE SET trip, traj,
\* service_date, route_id, vehicle_id, starttime, updated_at: of one row.
UpsertOne(table, row) ==
    IF \E old \in table : old.trip_instance_id = row.trip_instance_id
    THEN { IF old.trip_instance_id = row.trip_instance_id
           THEN [old EXCEPT !.trip = row.trip, !.traj = row.traj,
                            !.service_date = row.service_date,
                            !.route_id = row.route_id,
                            !.vehicle_id = row.vehicle_id,
                            !.starttime = row.starttime,
                            !.updated_at = row.updated_at]
           ELSE old : old \in table }
    ELSE table \cup {row}

RECURSIVE Upsert(_, _)
Upsert(table, rows) ==
    IF rows = {} THEN table
    ELSE LET r == CHOOSE x \in rows : TRUE
         IN  Upsert(UpsertOne(table, r), rows \ {r})

\* The kept rows of trip instance tid, in time order.
TripRows(kept, tid) == OrderByTime({s \in kept : s.trip_instance_id = tid})

TripIds(kept) == {s.trip_instance_id : s \in kept}

RawPoints(rows) == [i \in 1..Len(rows) |-> Pt(rows[i].latitude, rows[i].longitude)]

\* The rows _build_trajs_sql_only inserts from the kept sample rows.
SqlOnlyRows(kept, clock) ==
    { TrajRow(tid, TripRows(kept, tid),
              [i \in 1..Len(TripRows(kept, tid)) |->
                  TierPoint(TripRows(kept, tid)[i].trip_id,
                            ServiceDate(TripRows(kept, tid)[i]),
                            RawPoints(TripRows(kept, tid))[i])],
              <<>>, clock) :
        tid \in {t \in TripIds(kept) : Len(TripRows(kept, t)) > 1} }

(***************************************************************************)
(* The map-match service, as the builder sees it: how it answers the       *)
(* request made for one trip instance.                                     *)
(***************************************************************************)
\* The road the service snaps to, and its encoded polyline6:
\* (5,1) (5,2) (5,3) in units of 1e-6 degree.
Snap(pt) == Pt(5, pt.lon)

RoadPolyline == <<73, 65, 63, 65, 63, 65>>

Behaviours == {"match", "http400", "array"}

Matching(points) ==
    [kind |-> "response", status |-> 200, json |-> "object",
     matchings |-> <<RoadPolyline>>,
     tracepoints |-> [i \in 1..Len(points) |-> Tp(Snap(points[i]))]]

Status400 ==
    [kind |-> "response", status |-> 400, json |-> "object",
     matchings |-> <<>>, tracepoints |-> <<>>]

\* The HTTP outcome of the trace_route call for `points` under a behaviour.
Response(behaviour, points) ==
    CASE behaviour = "match"   -> Matching(points)
      [] behaviour = "http400" -> Status400
      [] behaviour = "array"   -> [kind |-> "response", status |-> 200, json |-> "array"]

\* valhalla_map_match for every trip instance of the window that has >= 2 points.
T0Results(kept, behaviour) ==
    [tid \in {t \in TripIds(kept) : Len(TripRows(kept, t)) >= 2} |->
        valhalla_map_match(RawPoints(TripRows(kept, tid)),
                           Response(behaviour, RawPoints(TripRows(kept, tid))))]

\* The rows _build_trajs_with_valhalla inserts: one for each trip instance whose
\* map match succeeded; the others are skipped.
ValhallaRows(kept, t0, clock) ==
    { TrajRow(tid, TripRows(kept, tid), t0[tid].points, t0[tid].shape, clock) :
        tid \in {t \in DOMAIN t0 :
                    /\ t0[t].tag = "match"
                    /\ Len(t0[t].points) = Len(TripRows(kept, t))} }

\* total_trips, matched_count and skipped_count as the loop over trips_data
\* leaves them (a trip with fewer than 2 points is passed over before either
\* counter is touched), and the value returned: len(inserted).
ValhallaCounts(kept, t0, clock) ==
    LET matched == {tid \in DOMAIN t0 :
                       /\ t0[tid].tag = "match"
                       /\ Len(t0[tid].points) = Len(TripRows(kept, tid))}
    IN  [ total_trips   |-> Cardinality(TripIds(kept)),
          matched_count |-> Cardinality(matched),
          skipped_count |-> Cardinality(DOMAIN t0 \ matched),
          returned      |-> Cardinality(ValhallaRows(kept, t0, clock)) ]

(***************************************************************************)
(* SpecBuild: position samples are stored and build_trajs is run.          *)
(***************************************************************************)
\* The vehicle-position entities the feed can hold: vehicles V1 and V2 both run
\* trip T1 (route R1), an unnamed vehicle runs trip T2 (route R2; one of its
\* entities comes without route_id).  An entity is
\* observed at second sec and fetched one tick later, or (late = 1) has moved on
\* and is fetched a second after that with its timestamp unchanged.
Fleet ==
    { [trip_id |-> T1, vehicle_id |-> V1, route_id |-> R1, latitude |-> 1,
       secs |-> {1, 2, 3}, lates |-> {0}],
      [trip_id |-> T1, vehicle_id |-> V2, route_id |-> R1, latitude |-> 3,
       secs |-> {2}, lates |-> {0, 1}],
      [trip_id |-> T2, vehicle_id |-> None, route_id |-> R2, latitude |-> 2,
       secs |-> {1, 2, 3}, lates |-> {0}],
      [trip_id |-> T2, vehicle_id |-> None, route_id |-> None, latitude |-> 2,
       secs |-> {2}, lates |-> {0}] }

BuildEntities ==
    UNION { { [kind |-> "vehicle", trip_id |-> f.trip_id, start_date |-> Date0101,
               start_time |-> Time0800, vehicle_id |-> f.vehicle_id,
               route_id |-> f.route_id,
               timestamp |-> sec, header_timestamp |-> 0,
               fetch_ts |-> FromTimestamp(sec) + 1 + late * TicksPerSec,
               latitude |-> f.latitude, longitude |-> sec + late] :
                sec \in f.secs, late \in f.lates } : f \in Fleet }

\* The calls build_trajs is made with: the window <<start_ts, end_ts>>, the route
\* filter, truncate_table, and use_valhalla with the behaviour of the service.
Windows ==
    { <<FromTimestamp(1), FromTimestamp(3)>>, <<FromTimestamp(1), FromTimestamp(2)>>,
      <<FromTimestamp(3), FromTimestamp(3)>> }

Params(mode, w, rf, truncate_table, behaviour) ==
    [mode |-> mode, start_ts |-> w[1], end_ts |-> w[2], rf |-> rf,
     truncate_table |-> truncate_table, behaviour |-> behaviour]

Calls ==
    { Params("sql", w, RouteFilter({}, {}), tr, "none") :
        w \in Windows, tr \in BOOLEAN }
    \cup
    { Params("valhalla", w, RouteFilter({}, {}), tr, b) :
        w \in Windows, tr \in BOOLEAN, b \in Behaviours }
    \cup
    { Params(m, <<FromTimestamp(1), FromTimestamp(3)>>, RouteFilter({R1}, {}),
             FALSE, IF m = "sql" THEN "none" ELSE "match") : m \in {"sql", "valhalla"} }

InitBuild ==
    /\ samples = {}
    /\ trips_mdb = {}
    /\ now = 0
    /\ last = [mode |-> "none"]
    /\ InitIdIdle /\ InitIngestIdle /\ InitMatchIdle

\* One poll stores the row of one vehicle-position entity (the ingestor runs
\* without route filter).
IngestFrom(entities) ==
    /\ now < MaxBuilds
    /\ Cardinality(samples) < MaxSamples
    /\ \E e \in entities :
        /\ ParseVehiclePosition(RouteFilter({}, {}), e) \ samples # {}
        /\ samples' = samples \cup ParseVehiclePosition(RouteFilter({}, {}), e)
    /\ UNCHANGED <<trips_mdb, now, last>>
    /\ UNCHANGED <<idVars, ingestVars, mm>>

IngestSample == IngestFrom(BuildEntities)

\* What `last` records of a build_trajs call: its parameters, the sample table it
\* read, the rows it kept, the trajectory table before it, how it ended
\* ("ok" / "raised"), the map-match results, its counters and return value, and
\* whether it repeats the call before it (same parameters, same sample table,
\* both ended ok).
Record(params, kept, before, result, t0, counts) ==
    [mode |-> params.mode, params |-> params, samplesAt |-> samples,
     kept |-> kept, before |-> before, result |-> result, t0 |-> t0,
     counts |-> counts,
     repeats |-> /\ last.mode # "none"
                 /\ last.result = "ok" /\ result = "ok"
                 /\ last.params = params
                 /\ last.samplesAt = samples]

\* A mutant: the table is truncated whatever truncate_table says.
AfterTruncate_always(table, truncate_table) == {}

\* TRUNCATE TABLE realtime_trips_mdb; conn.commit() when truncate_table is set.
AfterTruncate(table, truncate_table) == IF truncate_table THEN {} ELSE table

\* build_trajs with settings.use_valhalla false.
BuildSqlOnly ==
    /\ now < MaxBuilds
    /\ \E c \in {x \in Calls : x.mode = "sql"} :
        \E kept \in KeptByRowNumber({s \in samples :
                                        InWindow(s, c.start_ts, c.end_ts, c.rf)}) :
            /\ trips_mdb' = Upsert(AfterTruncate(trips_mdb, c.truncate_table),
                                   SqlOnlyRows(kept, now + 1))
            /\ last' = Record(c, kept, trips_mdb, "ok", <<>>,
                              [returned |-> Cardinality(SqlOnlyRows(kept, now + 1))])
    /\ now' = now + 1
    /\ UNCHANGED samples
    /\ UNCHANGED <<idVars, ingestVars, mm>>

\* build_trajs with settings.use_valhalla true.  An exception that leaves
\* valhalla_map_match leaves build_trajs: the connection's context manager rolls
\* back, which keeps the committed TRUNCATE.
BuildValhalla ==
    /\ now < MaxBuilds
    /\ \E c \in {x \in Calls : x.mode = "valhalla"} :
        \E kept \in KeptByScan({s \in samples :
                                   InWindow(s, c.start_ts, c.end_ts, c.rf)}) :
            LET t0     == T0Results(kept, c.behaviour)
                raised == \E tid \in DOMAIN t0 : t0[tid].tag = "raise"
            IN  /\ trips_mdb' =
                     IF raised THEN AfterTruncate(trips_mdb, c.truncate_table)
                     ELSE Upsert(AfterTruncate(trips_mdb, c.truncate_table),
                                 ValhallaRows(kept, t0, now + 1))
                /\ last' = Record(c, kept, trips_mdb,
                                  IF raised THEN "raised" ELSE "ok", t0,
                                  ValhallaCounts(kept, t0, now + 1))
    /\ now' = now + 1
    /\ UNCHANGED samples
    /\ UNCHANGED <<idVars, ingestVars, mm>>

NextBuild ==
    \/ IngestSample
    \/ BuildSqlOnly
    \/ BuildValhalla

SpecBuild == InitBuild /\ [][NextBuild]_vars

Built == last.mode # "none"

BuiltOk == Built /\ last.result = "ok"

\* The samples of trip instance tid the last build's window and filter select.
Covered(tid) ==
    { s \in last.samplesAt :
        /\ s.trip_instance_id = tid
        /\ InWindow(s, last.params.start_ts, last.params.end_ts, last.params.rf) }

\* The samples of trip instance tid observed within the last build's window.
InLastWindow(tid) ==
    { s \in last.samplesAt :
        /\ s.trip_instance_id = tid
        /\ last.params.start_ts <= s.entity_timestamp
        /\ s.entity_timestamp <= last.params.end_ts }

Written == {r \in trips_mdb : r.updated_at = now}

IsT1Run(s) ==
    s.trip_id = T1 /\ s.start_date = <<2024, 1, 1>> /\ s.start_time = Time0800

Id_T1_20240101_080000 ==
    <<"T", "1", "_", "2", "0", "2", "4", "0", "1", "0", "1", "_",
      "0", "8", "0", "0", "0", "0">>

Id_T1_20240101_0800 ==
    <<"T", "1", "_", "2", "0", "2", "4", "0", "1", "0", "1", "_", "0", "8", "0", "0">>

\* The samples of the T1 run all carry the id `id`, whatever their vehicle, and a
\* build that writes the run's trajectory leaves exactly one row for it, which
\* holds one point for every instant of the run's kept samples.
ReliefBusMerges(id) ==
    /\ \A s \in samples : IsT1Run(s) => s.trip_instance_id = id
    /\ Cardinality({r \in trips_mdb : r.trip_id = T1}) <= 1
    /\ (BuiltOk /\ \E r \in Written : r.trip_id = T1) =>
         \E r \in Written :
            /\ r.trip_instance_id = id
            /\ {r.trip[i].t : i \in 1..Len(r.trip)}
                 = {s.entity_timestamp : s \in {k \in last.kept : IsT1Run(k)}}

\* C2 (as amended): for trip_id "T1", service date 20240101 and start time
\* "08:00:00" the id is "T1_20240101_080000" for vehicle V1 and for vehicle V2, and
\* the samples of both vehicles end up in one single trajectory row.
C2_ReliefBusOneRow == ReliefBusMerges(Id_T1_20240101_080000)

\* C2 (as claimed): the id is "T1_20240101_0800".
C2_Original == ReliefBusMerges(Id_T1_20240101_0800)

\* A build kept a sample of V1 and a sample of V2 and wrote them into one row.
C2_Witness ==
    /\ BuiltOk
    /\ \E a \in last.kept, b \in last.kept :
        /\ IsT1Run(a) /\ IsT1Run(b)
        /\ a.vehicle_id = V1 /\ b.vehicle_id = V2
        /\ \E r \in Written :
            /\ r.trip_instance_id = Id_T1_20240101_080000
            /\ \E i, j \in 1..Len(r.trip) :
                r.trip[i].t = a.entity_timestamp /\ r.trip[j].t = b.entity_timestamp

\* C3: the timestamps of every stored trajectory are strictly increasing, and a
\* trajectory a build writes has exactly one point for each instant at which the
\* selected samples of its trip instance were observed.
C3_StrictlyIncreasing ==
    /\ \A r \in trips_mdb :
        \A i \in 1..(Len(r.trip) - 1) : r.trip[i].t < r.trip[i + 1].t
    /\ BuiltOk =>
         \A r \in Written :
            /\ Len(r.trip) = Cardinality({s.entity_timestamp : s \in Covered(r.trip_instance_id)})
            /\ \A i \in 1..Len(r.trip) :
                 \E s \in Covered(r.trip_instance_id) : s.entity_timestamp = r.trip[i].t

\* A build wrote a trajectory from a window in which two different samples of the
\* trip instance carry the same observed time.
C3_Witness ==
    /\ BuiltOk
    /\ \E r \in Written :
        \E a \in Covered(r.trip_instance_id), b \in Covered(r.trip_instance_id) :
            /\ a # b
            /\ a.entity_timestamp = b.entity_timestamp
            /\ a.longitude # b.longitude
            /\ Cardinality({i \in 1..Len(r.trip) : r.trip[i].t = a.entity_timestamp}) = 1

\* A stored row without its updated_at.
Derived(r) == [r EXCEPT !.updated_at = 0]

\* C4: running build_trajs a second time with the same window, route filter,
\* sample table and map-match answers leaves the same rows as running it once.
C4_Idempotent ==
    (Built /\ last.repeats) =>
        {Derived(r) : r \in trips_mdb} = {Derived(r) : r \in last.before}

\* C5: with the map-match tier enabled, a trip instance whose call is answered
\* with HTTP 400 and whose trip has a published shape still gets a trajectory.
C5_FallsThroughToT1 ==
    (Built /\ last.mode = "valhalla" /\ last.params.behaviour = "http400") =>
        \A s \in last.kept :
            ( /\ s.trip_instance_id \in DOMAIN last.t0
              /\ ~PublishedShape(s.trip_id).none )
            => \E r \in Written : r.trip_instance_id = s.trip_instance_id

C16_CountsAddUp ==
    /\ (BuiltOk /\ last.mode = "valhalla") =>
        /\ last.counts.matched_count + last.counts.skipped_count
             = Cardinality(TripIds(last.kept))
        /\ last.counts.skipped_count
             = Cardinality(TripIds(last.kept) \ {r.trip_instance_id : r \in Written})
    /\ BuiltOk => last.counts.returned = Cardinality(Written)

\* C20: a build over [start, end) uses exactly the samples observed at a time t
\* with start <= t < end; a sample observed at end is not used.
C20_HalfOpenWindow ==
    Built =>
        /\ \A k \in last.kept :
            last.params.start_ts <= k.entity_timestamp
            /\ k.entity_timestamp < last.params.end_ts
        /\ \A s \in last.samplesAt :
            ( /\ last.params.start_ts <= s.entity_timestamp
              /\ s.entity_timestamp < last.params.end_ts
              /\ (~applies(last.params.rf) \/ s.route_id \in last.params.rf.route_ids) )
            => \E k \in last.kept : SameInstant(s, k)

\* C21: of the samples of the window that share a trip instance and an observed
\* time, a build keeps exactly one, the one fetched last.
C21_LatestFetchKept ==
    Built =>
        \A s \in last.samplesAt :
            s \in Covered(s.trip_instance_id) =>
                /\ Cardinality({k \in last.kept : SameInstant(s, k)}) = 1
                /\ \A k \in last.kept :
                     SameInstant(s, k) => k.fetch_timestamp >= s.fetch_timestamp

\* C13: a route filter without route ids and short names does not apply:
\* ingestion accepts every entity, whatever its route id, and a build takes every
\* sample of the window, those without route id included.
C13_EmptyFilterAcceptsAll ==
    /\ ~applies(RouteFilter({}, {}))
    /\ \A e \in BuildEntities :
        /\ should_accept_route(RouteFilter({}, {}), e.route_id)
        /\ ParseVehiclePosition(RouteFilter({}, {}), e) = {VehicleRow(e)}
    /\ (Built /\ last.params.rf = RouteFilter({}, {})) =>
         \A s \in last.samplesAt :
            s \in InLastWindow(s.trip_instance_id)
            => \E k \in last.kept : SameInstant(s, k)

\* A sample without route id was stored, and a build without route filter kept
\* it and wrote its instant into a trajectory.
C13_Witness ==
    /\ BuiltOk /\ last.params.rf = RouteFilter({}, {})
    /\ \E k \in last.kept :
        /\ k.route_id = None
        /\ \E r \in Written :
            /\ r.trip_instance_id = k.trip_instance_id
            /\ \E i \in 1..Len(r.trip) : r.trip[i].t = k.entity_timestamp

\* C30: a build that fails leaves the trajectory table with exactly the rows it
\* held before the build started.
C30_FailedBuildKeepsTable ==
    (Built /\ last.result = "raised") => trips_mdb = last.before

(***************************************************************************)
(* SpecUpsert: the feed carries two runs whose trip fields differ and      *)
(* whose trip_instance_id is the same, and build_trajs is run over         *)
(* overlapping windows.                                                    *)
(***************************************************************************)
CollidingRuns ==
    { [trip_id |-> T1_20240101, start_date |-> None, vehicle_id |-> V1,
       route_id |-> R1, latitude |-> 1],
      [trip_id |-> T1, start_date |-> Date0101, vehicle_id |-> V2,
       route_id |-> R2, latitude |-> 2] }

CollidingEntities ==
    { [kind |-> "vehicle", trip_id |-> f.trip_id, start_date |-> f.start_date,
       start_time |-> Time0800, vehicle_id |-> f.vehicle_id,
       route_id |-> f.route_id,
       timestamp |-> sec, header_timestamp |-> 0,
       fetch_ts |-> FromTimestamp(sec) + 1,
       latitude |-> f.latitude, longitude |-> sec] :
        f \in CollidingRuns, sec \in 1..3 }

IngestColliding == IngestFrom(CollidingEntities)

NextUpsert ==
    \/ IngestColliding
    \/ BuildSqlOnly
    \/ BuildValhalla

SpecUpsert == InitBuild /\ [][NextUpsert]_vars

\* The rows the last build's INSERT ... SELECT produced.
NewRows ==
    IF last.mode = "sql" THEN SqlOnlyRows(last.kept, now)
    ELSE ValhallaRows(last.kept, last.t0, now)

\* C26: when a build writes a row whose trip_instance_id already has a stored
\* row, the table afterwards holds exactly one row for that id, and it is the
\* newly built row in every field: trip_id, route_id, service_date, vehicle_id,
\* point sequence, shape, start time and updated-at.
C26_UpsertReplacesAll ==
    BuiltOk =>
        \A r \in NewRows :
            (\E o \in AfterTruncate(last.before, last.params.truncate_table) :
                o.trip_instance_id = r.trip_instance_id)
            => /\ r \in trips_mdb
               /\ Cardinality({x \in trips_mdb :
                                 x.trip_instance_id = r.trip_instance_id}) = 1

(***************************************************************************)
(* SpecMatch: valhalla_map_match is called with a point list and the HTTP  *)
(* call ends in one of the ways it can.                                    *)
(***************************************************************************)
\* Points of a trace: two valid ones, one of them at the end of both ranges, one
\* whose latitude and one whose longitude is out of range.
TracePoints == {Pt(1, 1), Pt(-LatMax, LonMax), Pt(LatMax + 1, 3), Pt(2, -LonMax - 1)}

PointLists == UNION { [1..n -> TracePoints] : n \in 0..MaxPoints }

\* The tracepoint lists of a response to n points: all resolved, the first one
\* null, one entry short, or none.
TracepointLists(points) ==
    LET all == [i \in 1..Len(points) |-> Tp(Snap(points[i]))]
    IN  { all, <<>> }
        \cup (IF points = <<>> THEN {} ELSE { [all EXCEPT ![1] = NullTp], Tail(all) })

\* A polyline of one point, (5,1).
PointPolyline == <<73, 65>>

\* The ways the HTTP call can end.
HttpOutcomes(points) ==
    { [kind |-> k] : k \in {"timeout", "connection"} }
    \cup { [kind |-> "response", status |-> st, json |-> j] :
            st \in {400, 500}, j \in {"invalid", "array", "object"} }
    \cup { [kind |-> "response", status |-> 200, json |-> j] : j \in {"invalid", "array"} }
    \cup { [kind |-> "response", status |-> 200, json |-> "object",
            matchings |-> m, tracepoints |-> tps] :
            m \in { <<>>, <<RoadPolyline>>, <<PointPolyline>>, << <<>> >> },
            tps \in TracepointLists(points) }

InitMatch ==
    /\ mm \in { [phase |-> "called", points |-> p] : p \in PointLists }
    /\ InitIdIdle /\ InitIngestIdle /\ InitBuildIdle

\* valhalla_map_match returns None before any request is made.
MatchRejects ==
    /\ mm.phase = "called"
    /\ ~RequestMade(mm.points)
    /\ mm' = [phase |-> "done", points |-> mm.points, requested |-> FALSE,
              resp |-> [kind |-> "none"],
              out |-> valhalla_map_match(mm.points, [kind |-> "none"])]
    /\ UNCHANGED <<idVars, ingestVars, buildVars>>

\* requests.post(url, json=payload, timeout=timeout) is called.
MatchPosts ==
    /\ mm.phase = "called"
    /\ RequestMade(mm.points)
    /\ mm' = [phase |-> "posted", points |-> mm.points]
    /\ UNCHANGED <<idVars, ingestVars, buildVars>>

\* requests.post ends and valhalla_map_match returns or raises.
MatchReturns ==
    /\ mm.phase = "posted"
    /\ \E resp \in HttpOutcomes(mm.points) :
        mm' = [phase |-> "done", points |-> mm.points, requested |-> TRUE,
               resp |-> resp, out |-> valhalla_map_match(mm.points, resp)]
    /\ UNCHANGED <<idVars, ingestVars, buildVars>>

NextMatch ==
    \/ MatchRejects
    \/ MatchPosts
    \/ MatchReturns

SpecMatch == InitMatch /\ [][NextMatch]_vars

\* C6: valhalla_map_match never raises: whatever the outcome of the HTTP call, it
\* returns "no match" or a match.
C6_NeverRaises ==
    mm.phase = "done" => mm.out.tag \in {"none", "match"}


\* The geometry of the first matching of a response, decoded (<<>>: none).
FullShape(resp) ==
    IF resp.matchings # <<>> /\ resp.matchings[1] # <<>>
    THEN decode_polyline6(resp.matchings[1]) ELSE <<>>

Answered200 ==
    /\ mm.phase = "done" /\ mm.requested
    /\ mm.resp.kind = "response" /\ mm.resp.status = 200 /\ mm.resp.json = "object"

\* C18: on a 200 answer for n points, the tracepoint locations are used when every
\* tracepoint is resolved; when one is null all are discarded and the decoded
\* geometry, resampled to n, is used; a match is returned only when that gives n
\* points, so a returned match has exactly n points.
C18_AllOrNothing ==
    Answered200 =>
        LET n   == Len(mm.points)
            tps == mm.resp.tracepoints
        IN  /\ (tps # <<>> /\ \A i \in 1..Len(tps) : ~tps[i].null) =>
                 IF Len(tps) = n
                 THEN /\ mm.out.tag = "match"
                      /\ mm.out.points = [i \in 1..n |-> Pt(tps[i].lat, tps[i].lon)]
                 ELSE mm.out = NoMatch
            /\ (\E i \in 1..Len(tps) : tps[i].null) =>
                 IF FullShape(mm.resp) # <<>>
                 THEN /\ mm.out.tag = "match"
                      /\ mm.out.points = resample_points(FullShape(mm.resp), n)
                 ELSE mm.out = NoMatch
            /\ mm.out.tag = "match" => Len(mm.out.points) = n

\* A 200 answer to three points with a null tracepoint and a geometry of one
\* point gave a match of three points, all of them that point.
C18_Witness ==
    /\ Answered200
    /\ Len(mm.points) = 3
    /\ mm.resp.tracepoints # <<>> /\ mm.resp.tracepoints[1].null
    /\ mm.resp.matchings = <<PointPolyline>>
    /\ mm.out.tag = "match"
    /\ mm.out.points = <<Pt(5, 1), Pt(5, 1), Pt(5, 1)>>

\* C19: when a point has a longitude outside [-180, 180] or a latitude outside
\* [-90, 90], valhalla_map_match returns "no match" without making a request.
C19_InvalidCoordNoRequest ==
    (mm.phase = "done" /\ \E i \in 1..Len(mm.points) : ~ValidCoord(mm.points[i]))
    => (mm.out = NoMatch /\ ~mm.requested)

\* A call with two points, the second with a longitude below -180, ended without
\* a request; and points at the ends of the ranges are not rejected.
C19_Witness ==
    /\ mm.phase = "done"
    /\ mm.points = <<Pt(-LatMax, LonMax), Pt(2, -LonMax - 1)>>
    /\ mm.out = NoMatch /\ ~mm.requested

(***************************************************************************)
(* SpecPolyline: the map-match service encodes a coordinate list as a      *)
(* polyline of precision 6 and _decode_polyline6 decodes it.               *)
(***************************************************************************)
\* The characters of one value: (value << 1), inverted when value < 0, cut into
\* 5-bit chunks, low chunk first, each but the last or-ed with 0x20, plus 63.
RECURSIVE EncodeChunks(_)
EncodeChunks(v) ==
    IF v >= 32 THEN <<(32 + (v % 32)) + 63>> \o EncodeChunks(v \div 32)
    ELSE <<v + 63>>

EncodeValue(delta) ==
    EncodeChunks(IF delta < 0 THEN -(2 * delta) - 1 ELSE 2 * delta)

\* The polyline of coords, each point encoded as its difference to the previous
\* one (the first to (0, 0)), latitude first.
RECURSIVE EncodeFrom(_, _, _)
EncodeFrom(coords, lat, lon) ==
    IF coords = <<>> THEN <<>>
    ELSE EncodeValue(Head(coords).lat - lat) \o EncodeValue(Head(coords).lon - lon)
         \o EncodeFrom(Tail(coords), Head(coords).lat, Head(coords).lon)

encode_polyline6(coords) == EncodeFrom(coords, 0, 0)

\* Coordinates in units of 1e-6 degree: the ends of the range, zero, values of
\* either sign, one-chunk and many-chunk differences.
LineCoords ==
    { Pt(lat, lon) : lat \in {-LatMax, -1, 0, 16}, lon \in {-17, 0, LonMax} }

CoordLists == UNION { [1..n -> LineCoords] : n \in 0..MaxLine }

InitPolyline ==
    /\ mm \in { [phase |-> "coords", coords |-> c] : c \in CoordLists }
    /\ InitIdIdle /\ InitIngestIdle /\ InitBuildIdle

\* The service encodes the geometry of a matching.
EncodePolyline ==
    /\ mm.phase = "coords"
    /\ mm' = [phase |-> "encoded", coords |-> mm.coords,
              encoded |-> encode_polyline6(mm.coords)]
    /\ UNCHANGED <<idVars, ingestVars, buildVars>>

\* _decode_polyline6(geometry)
DecodePolyline ==
    /\ mm.phase = "encoded"
    /\ mm' = [phase |-> "decoded", coords |-> mm.coords, encoded |-> mm.encoded,
              decoded |-> decode_polyline6(mm.encoded)]
    /\ UNCHANGED <<idVars, ingestVars, buildVars>>

NextPolyline ==
    \/ EncodePolyline
    \/ DecodePolyline

SpecPolyline == InitPolyline /\ [][NextPolyline]_vars

Within(a, b, eps) == a - b <= eps /\ b - a <= eps

\* C11: decoding the polyline of a coordinate list gives as many pairs as were
\* encoded, in the same order, each within 1e-6 degree (one unit) of the original.
C11_RoundTrip ==
    mm.phase = "decoded" =>
        /\ Len(mm.decoded) = Len(mm.coords)
        /\ \A i \in 1..Len(mm.coords) :
            /\ Within(mm.decoded[i].lat, mm.coords[i].lat, 1)
            /\ Within(mm.decoded[i].lon, mm.coords[i].lon, 1)

\* A list of two points was decoded whose differences are negative in latitude
\* and zero in longitude for the second point.
C11_Witness ==
    /\ mm.phase = "decoded"
    /\ Len(mm.coords) = 2
    /\ mm.coords[2].lat < mm.coords[1].lat
    /\ mm.coords[2].lon = mm.coords[1].lon
    /\ mm.decoded = mm.coords


\* The accumulated values of a polyline: each from successive 5-bit groups, the
\* least significant first, a group with the 6th bit set being followed by
\* another.
RECURSIVE AccumulatedFrom(_, _, _, _)
AccumulatedFrom(encoded, index, r, shift) ==
    IF index > Len(encoded) THEN (IF shift = 0 THEN <<>> ELSE <<r>>)
    ELSE LET group == (encoded[index] - 63) % 32
             more  == (encoded[index] - 63) \div 32 = 1
         IN  IF more
             THEN AccumulatedFrom(encoded, index + 1, r + group * Pow2(shift), shift + 5)
             ELSE <<r + group * Pow2(shift)>> \o AccumulatedFrom(encoded, index + 1, 0, 0)

\* The bitwise complement of r >> 1 for an odd r, r >> 1 for an even one.
ComplementDelta(r) == IF r % 2 = 1 THEN -(r \div 2) - 1 ELSE r \div 2

\* The arithmetic negation of r >> 1 for an odd r, r >> 1 for an even one.
NegationDelta(r) == IF r % 2 = 1 THEN -(r \div 2) ELSE r \div 2

\* The decoded points are the running sums of the deltas Delta gives for the
\* accumulated values, taken in turn for latitude and longitude.
DecodedBy(Delta(_)) ==
    mm.phase = "decoded" =>
        LET rs == AccumulatedFrom(mm.encoded, 1, 0, 0)
            Before(i) == IF i = 1 THEN Pt(0, 0) ELSE mm.decoded[i - 1]
        IN  /\ Len(rs) = 2 * Len(mm.decoded)
            /\ \A i \in 1..Len(mm.decoded) :
                 /\ mm.decoded[i].lat = Before(i).lat + Delta(rs[2 * i - 1])
                 /\ mm.decoded[i].lon = Before(i).lon + Delta(rs[2 * i])

\* C28 (as amended): each value is assembled from successive 5-bit groups, least
\* significant first, while the 6th bit is set; the signed delta is r >> 1 for an
\* even r and the bitwise complement of r >> 1, that is -(r >> 1) - 1, for an odd
\* r; the delta is added to the running latitude or longitude.
C28_DeltaIsComplement == DecodedBy(ComplementDelta)

\* C28 as stated: the delta of an odd r is the negation of r >> 1.
C28_Original == DecodedBy(NegationDelta)

\* A polyline was decoded whose first value is odd: the first point lies at
\* latitude -1, and its accumulated value is 1.
C28_Witness ==
    /\ mm.phase = "decoded"
    /\ Len(mm.coords) >= 1
    /\ mm.coords[1].lat = -1
    /\ AccumulatedFrom(mm.encoded, 1, 0, 0)[1] = 1
    /\ mm.decoded[1].lat = -1


(***************************************************************************)
(* SpecResample: _resample_points is called with a list and a length.      *)
(***************************************************************************)
\* Three points that differ, so that an element says which position it came from.
ShapePoints == {Pt(5, 1), Pt(5, 2), Pt(5, 3)}

ShapeLists == UNION { [1..n -> ShapePoints] : n \in 0..MaxPoints }

TargetLens == (-1)..(MaxPoints + 1)

InitResample ==
    /\ mm \in { [phase |-> "points", points |-> p, target_len |-> n] :
                    p \in ShapeLists, n \in TargetLens }
    /\ InitIdIdle /\ InitIngestIdle /\ InitBuildIdle

\* _resample_points(points, target_len) returns.
Resample ==
    /\ mm.phase = "points"
    /\ mm' = [phase |-> "resampled", points |-> mm.points, target_len |-> mm.target_len,
              out |-> resample_points(mm.points, mm.target_len)]
    /\ UNCHANGED <<idVars, ingestVars, buildVars>>

NextResample == Resample

SpecResample == InitResample /\ [][NextResample]_vars

\* C12: _resample_points returns the empty list for a target length <= 0 or an
\* empty input, the first element alone for target length 1 and a non-empty input,
\* and the input itself when the target length is the input's length.
C12_ResampleEdges ==
    mm.phase = "resampled" =>
        /\ (mm.target_len <= 0 \/ mm.points = <<>>) => mm.out = <<>>
        /\ (mm.target_len = 1 /\ mm.points # <<>>) => mm.out = <<mm.points[1]>>
        /\ mm.target_len = Len(mm.points) => mm.out = mm.points

\* A list of three points whose first and last differ was resampled to length 1.
C12_Witness ==
    /\ mm.phase = "resampled"
    /\ Len(mm.points) = 3 /\ mm.points[1] # mm.points[3]
    /\ mm.target_len = 1
    /\ mm.out = <<mm.points[1]>>


\* C27: for a target length N >= 2 and a non-empty input of length M,
\* _resample_points returns N elements; element i is the input element at the
\* index nearest to i/(N-1) * (M-1), the even one of the two when the value lies
\* half way between them (round()); element 0 is the first input element and
\* element N-1 the last.
C27_ResampleNearest ==
    (mm.phase = "resampled" /\ mm.target_len >= 2 /\ mm.points # <<>>) =>
        LET N == mm.target_len
            M == Len(mm.points)
            Twice(i, k) == IF k * (N - 1) >= i * (M - 1)
                           THEN 2 * (k * (N - 1) - i * (M - 1))
                           ELSE 2 * (i * (M - 1) - k * (N - 1))
        IN  /\ Len(mm.out) = N
            /\ \A i \in 0..(N - 1) :
                 \E k \in 0..(M - 1) :
                    /\ mm.out[i + 1] = mm.points[k + 1]
                    /\ Twice(i, k) <= N - 1
                    /\ Twice(i, k) = N - 1 => k % 2 = 0
            /\ mm.out[1] = mm.points[1]
            /\ mm.out[N] = mm.points[M]

\* Two different points were resampled to length 3: the middle element lies half
\* way between them and is the first.
C27_Witness ==
    /\ mm.phase = "resampled"
    /\ Len(mm.points) = 2 /\ mm.points[1] # mm.points[2]
    /\ mm.target_len = 3
    /\ mm.out = <<mm.points[1], mm.points[1], mm.points[2]>>


(***************************************************************************)
(* SpecParse: an ingestor is constructed with route ids and short names,   *)
(* and _parse_vehicle_positions reads one entity of a feed.                *)
(***************************************************************************)
S1 == <<"1">>
S2 == <<"2">>
S9 == <<"9">>

\* The catalog table `routes`: no route has the short name "9".
Catalog ==
    { [route_id |-> R1, route_short_name |-> S1],
      [route_id |-> R2, route_short_name |-> S2] }

\* position.latitude / position.longitude as the message holds them: not set, set
\* to 0, set to another value.  Reading a field that is not set gives 0.
Coordinate == { [set |-> FALSE, value |-> 0], [set |-> TRUE, value |-> 0],
                [set |-> TRUE, value |-> 1] }

ParseEntities ==
    { [kind |-> "vehicle", trip_id |-> T1, start_date |-> Date0101,
       start_time |-> Time0800, vehicle_id |-> V1, route_id |-> r,
       timestamp |-> 1, header_timestamp |-> 0, fetch_ts |-> FromTimestamp(1) + 1,
       lat_set |-> lat.set, lon_set |-> lon.set,
       latitude |-> lat.value, longitude |-> lon.value] :
        r \in {None, R1, R2}, lat \in Coordinate, lon \in Coordinate }

\* GTFSRealtimeIngestor.__init__: self.route_filter = resolve_route_filter(...)
InitParse ==
    /\ parse \in { [phase |-> "configured", route_ids |-> ids, route_short_names |-> names,
                     rf |-> resolve_route_filter(Catalog, ids, names)] :
                        ids \in SUBSET {R1, R2}, names \in SUBSET {S1, S9} }
    /\ entA = [kind |-> "none"] /\ entB = [kind |-> "none"] /\ idA = <<>> /\ idB = <<>>
    /\ InitIngestIdle /\ InitBuildIdle /\ InitMatchIdle

\* One pass of the loop of _parse_vehicle_positions over an entity that has a
\* vehicle: the route check, the position check, the row.
ParseEntity ==
    /\ parse.phase = "configured"
    /\ \E e \in ParseEntities :
        parse' = [phase |-> "parsed", route_ids |-> parse.route_ids,
                  route_short_names |-> parse.route_short_names, rf |-> parse.rf,
                  entity |-> e,
                  accepted |-> should_accept_route(parse.rf, e.route_id),
                  rows |-> ParseVehiclePosition(parse.rf, e)]
    /\ UNCHANGED <<entA, entB, idA, idB, ingestVars, buildVars, mm>>

NextParse == ParseEntity

SpecParse == InitParse /\ [][NextParse]_vars

\* An entity was parsed by an ingestor given short names none of which is the
\* short name of a route.
OnlyUnknownNames ==
    /\ parse.phase = "parsed"
    /\ parse.route_short_names # {}
    /\ \A r \in Catalog : r.route_short_name \notin parse.route_short_names

\* The filter resolved from the route ids alone.
FilterOfIds == resolve_route_filter(Catalog, parse.route_ids, {})

\* C22 (as amended): a filter resolved from a non-empty route-id set R and only
\* unknown short names accepts the entities the filter resolved from R alone
\* accepts; resolved from no route id and only unknown short names it accepts none.
C22_UnknownNamesWithIds ==
    OnlyUnknownNames =>
        IF parse.route_ids # {}
        THEN /\ parse.accepted = should_accept_route(FilterOfIds, parse.entity.route_id)
             /\ parse.rows = ParseVehiclePosition(FilterOfIds, parse.entity)
        ELSE ~parse.accepted /\ parse.rows = {}

\* C22 (as claimed): with only unknown short names the filter accepts what the
\* filter resolved from R alone accepts, every entity when R is empty.
C22_Original ==
    OnlyUnknownNames =>
        /\ parse.accepted = should_accept_route(FilterOfIds, parse.entity.route_id)
        /\ parse.route_ids = {} => parse.accepted

\* An ingestor given route id R1 and the unknown short name "9" accepted and
\* stored an entity of route R1.
C22_Witness ==
    /\ OnlyUnknownNames
    /\ parse.route_ids = {R1} /\ parse.route_short_names = {S9}
    /\ parse.entity.route_id = R1
    /\ parse.accepted /\ parse.rows # {}

\* C23: a route-accepted vehicle-position entity is persisted exactly when its
\* latitude and its longitude are both set, a value of 0 included.
C23_PersistedIffPositionSet ==
    (parse.phase = "parsed" /\ parse.accepted) =>
        (parse.rows # {} <=> (parse.entity.lat_set /\ parse.entity.lon_set))

====
